---- MODULE Spec2Model ----
(***************************************************************************)
(* st-text-messaging: the phone message store (lib/message-store.js), the  *)
(* bridge to the host's main chat (lib/context-bridge.js) and the group    *)
(* turn selection and message handlers of the phone UI (lib/phone-ui.js).  *)
(***************************************************************************)
EXTENDS Integers, Sequences, FiniteSets, TLC

(***************************************************************************)
(* Bounds of the model.                                                    *)
(***************************************************************************)
MaxAppends == 3
MaxClock == 3

(***************************************************************************)
(* JavaScript values.  null and undefined are Null; ids are numbers and    *)
(* the number 0 stands for a missing (falsy) id.                           *)
(***************************************************************************)
Null == "<null>"

Truthy(v) == v # Null /\ v # ""

OrElse(v, d) == IF Truthy(v) THEN v ELSE d

(***************************************************************************)
(* The host context: two conversations, an individual chat with the        *)
(* character of index 1 and a group chat g1.                               *)
(***************************************************************************)
IndividualKey == "1"

GroupKey == "group_g1"

Keys == {IndividualKey, GroupKey}

isInGroupChat(key) == key = GroupKey

ConversationType(key) == IF key = GroupKey THEN "group" ELSE "individual"

characters ==
  << [name |-> "X", avatar |-> "x.png", talkativeness |-> 0],
     [name |-> "Y", avatar |-> "y.png", talkativeness |-> 50],
     [name |-> "Z", avatar |-> "", talkativeness |-> 100] >>

MemberId(m) == OrElse(m.avatar, m.name)

name1 == "User"

(***************************************************************************)
(* Texts are sequences of words.  The mode marker is the word PhoneEmoji.  *)
(***************************************************************************)
PhoneEmoji == "phone-emoji"

(***************************************************************************)
(* The message store: messageStore[key] is undefined (exists = FALSE) or   *)
(* {type, messages, lastSender}.                                           *)
(***************************************************************************)
NoStore == [exists |-> FALSE, type |-> Null, messages |-> <<>>, lastSender |-> Null]

initializeConversationStore(store, key) ==
  IF store.exists THEN store
  ELSE [exists |-> TRUE, type |-> ConversationType(key), messages |-> <<>>, lastSender |-> Null]

\* the sender key of a stored message, as syncWithMainChat and
\* reconstructFromMainChat compute it
SenderKey(msg) ==
  IF msg.sender = "user" THEN "user" ELSE OrElse(msg.characterId, "character")

\* lastSender from the last message, as removeMessage, restoreMessage and
\* syncWithMainChat recompute it
LastSenderOf(messages) ==
  IF Len(messages) = 0 THEN Null ELSE SenderKey(messages[Len(messages)])

\* a sender key that tells user from character and nothing more
AddSenderKey_SenderOnly(inGroup, message) ==
  message.sender

\* the sender key addMessage uses for the flag and for lastSender
AddSenderKey(inGroup, message) ==
  IF message.sender = "user" THEN "user"
  ELSE IF inGroup /\ Truthy(message.characterId) THEN message.characterId
  ELSE "character"

addMessage(store0, key, message, t) ==
  LET store == initializeConversationStore(store0, key)
      inGroup == isInGroupChat(key)
      fullMessage ==
        [id |-> t,
         sender |-> message.sender,
         characterId |-> OrElse(message.characterId, Null),
         text |-> message.text,
         characterName |-> OrElse(message.characterName, "Character"),
         isFirstInSequence |-> store.lastSender # AddSenderKey(inGroup, message),
         edited |-> FALSE,
         editedAt |-> 0,
         reconstructed |-> FALSE]
  IN [store |-> [store EXCEPT !.messages = Append(@, fullMessage),
                              !.lastSender = AddSenderKey(inGroup, message)],
      ret |-> fullMessage]

\* Array.prototype.findIndex over a 1-based sequence: 0 when nothing matches
FindIndexById(messages, messageId) ==
  IF \E i \in 1..Len(messages) : messages[i].id = messageId
  THEN CHOOSE i \in 1..Len(messages) :
         /\ messages[i].id = messageId
         /\ \A j \in 1..(i - 1) : messages[j].id # messageId
  ELSE 0

FindIndexGreater(messages, messageId) ==
  IF \E i \in 1..Len(messages) : messages[i].id > messageId
  THEN CHOOSE i \in 1..Len(messages) :
         /\ messages[i].id > messageId
         /\ \A j \in 1..(i - 1) : ~(messages[j].id > messageId)
  ELSE 0

RemoveAt(s, i) == SubSeq(s, 1, i - 1) \o SubSeq(s, i + 1, Len(s))

InsertAt(s, i, e) == SubSeq(s, 1, i - 1) \o <<e>> \o SubSeq(s, i, Len(s))

removeMessage(store, messageId) ==
  LET index == FindIndexById(store.messages, messageId)
      rest == RemoveAt(store.messages, index)
  IN IF ~store.exists \/ index = 0
     THEN [store |-> store, found |-> FALSE, ret |-> <<>>]
     ELSE [store |-> [store EXCEPT
                        !.messages = rest,
                        !.lastSender =
                          IF Len(rest) = 0 THEN Null
                          ELSE IF index = Len(rest) + 1 THEN LastSenderOf(rest)
                          ELSE @],
           found |-> TRUE,
           ret |-> <<store.messages[index]>>]

\* editedAt is 0 while the message has no editedAt
editMessage(store, messageId, newText, t) ==
  LET index == FindIndexById(store.messages, messageId)
  IN IF ~store.exists \/ index = 0
     THEN [store |-> store, found |-> FALSE]
     ELSE [store |-> [store EXCEPT !.messages[index].text = newText,
                                   !.messages[index].edited = TRUE,
                                   !.messages[index].editedAt = t],
           found |-> TRUE]

\* atIndex is a 0-based JavaScript index or -1 for "no index given"
restoreMessage(store0, key, message, atIndex) ==
  LET store == initializeConversationStore(store0, key)
      insertIndex == FindIndexGreater(store.messages, message.id)
      messages ==
        IF atIndex >= 0 /\ atIndex <= Len(store.messages)
        THEN InsertAt(store.messages, atIndex + 1, message)
        ELSE IF insertIndex = 0 THEN Append(store.messages, message)
        ELSE InsertAt(store.messages, insertIndex, message)
  IN [store EXCEPT !.messages = messages, !.lastSender = LastSenderOf(messages)]

clearMessages(store) ==
  IF store.exists THEN [store EXCEPT !.messages = <<>>, !.lastSender = Null] ELSE store

(***************************************************************************)
(* The host's main chat (context.chat) and the bridge to it.               *)
(***************************************************************************)
name2(key) == IF key = IndividualKey THEN characters[2].name ELSE Null

FormatForMainChat(text) ==
  IF Len(text) > 0 /\ text[1] = PhoneEmoji THEN text ELSE <<PhoneEmoji>> \o text

addMessageToMainChat(chatArr, key, text, isUser, characterName, phoneMessageId, t) ==
  Append(chatArr,
         [name |-> IF isUser THEN name1 ELSE OrElse(characterName, name2(key)),
          is_user |-> isUser,
          mes |-> FormatForMainChat(text),
          send_date |-> t,
          isPhoneMessage |-> TRUE,
          edited |-> FALSE,
          editedAt |-> 0,
          phoneMessageId |-> phoneMessageId,
          characterName |-> characterName])

\* 1-based index of the entry carrying the id, 0 when there is none
findMainChatMessageIndex(chatArr, phoneMessageId) ==
  IF \E i \in 1..Len(chatArr) : chatArr[i].phoneMessageId = phoneMessageId
  THEN CHOOSE i \in 1..Len(chatArr) :
         /\ chatArr[i].phoneMessageId = phoneMessageId
         /\ \A j \in 1..(i - 1) : chatArr[j].phoneMessageId # phoneMessageId
  ELSE 0

\* editMessageInMainChat(phoneMessageId, newText) up to its await
editMessageInMainChat(chatArr, phoneMessageId, newText, t) ==
  LET index == findMainChatMessageIndex(chatArr, phoneMessageId)
  IN IF index = 0 THEN chatArr
     ELSE [chatArr EXCEPT ![index].mes = FormatForMainChat(newText),
                          ![index].edited = TRUE,
                          ![index].editedAt = t]

deleteMessageFromMainChat(chatArr, phoneMessageId) ==
  LET index == findMainChatMessageIndex(chatArr, phoneMessageId)
  IN IF index = 0 THEN chatArr ELSE RemoveAt(chatArr, index)

(***************************************************************************)
(* Reconciliation of the store with the main chat.                         *)
(***************************************************************************)
ValidPhoneMessageIds(chatArr) ==
  { chatArr[i].phoneMessageId : i \in { j \in 1..Len(chatArr) :
      chatArr[j].isPhoneMessage /\ chatArr[j].phoneMessageId # 0 } }

\* the recalculation of isFirstInSequence for all messages
Resequence(messages) ==
  [i \in 1..Len(messages) |->
     [messages[i] EXCEPT !.isFirstInSequence =
        (IF i = 1 THEN Null ELSE SenderKey(messages[i - 1])) # SenderKey(messages[i])]]

syncWithMainChat(store, chatArr) ==
  LET valid == ValidPhoneMessageIds(chatArr)
      Keep(msg) == msg.id \in valid
      kept == SelectSeq(store.messages, Keep)
      removedCount == Len(store.messages) - Len(kept)
  IN IF ~store.exists \/ Len(store.messages) = 0
     THEN [store |-> store, ret |-> 0]
     ELSE IF removedCount > 0
     THEN [store |-> [store EXCEPT !.messages = Resequence(kept),
                                   !.lastSender = LastSenderOf(kept)],
           ret |-> removedCount]
     ELSE [store |-> [store EXCEPT !.messages = kept], ret |-> 0]

\* context.characters.findIndex(c => c.name === characterName), 0-based, -1 if absent
CharIndexByName(characterName) ==
  IF \E i \in 1..Len(characters) : characters[i].name = characterName
  THEN (CHOOSE i \in 1..Len(characters) :
          /\ characters[i].name = characterName
          /\ \A j \in 1..(i - 1) : characters[j].name # characterName) - 1
  ELSE -1

\* String(charIndex) for the indices of context.characters
IndexString(i) == IF i = 0 THEN "0" ELSE IF i = 1 THEN "1" ELSE "2"

StripPhoneEmoji(mes) ==
  IF Len(mes) > 0 /\ mes[1] = PhoneEmoji THEN Tail(mes) ELSE mes

ReconstructedMessage(msg, index, inGroup, lastSender, t) ==
  LET isUser == msg.is_user
      characterName == OrElse(msg.characterName, msg.name)
      charIndex == CharIndexByName(characterName)
      characterId == IF inGroup /\ ~isUser /\ charIndex # -1
                     THEN IndexString(charIndex) ELSE Null
      currentSenderKey == IF isUser THEN "user" ELSE OrElse(characterId, "character")
  IN [id |-> IF msg.phoneMessageId # 0 THEN msg.phoneMessageId
             ELSE IF msg.send_date # 0 THEN msg.send_date ELSE t + index,
      sender |-> IF isUser THEN "user" ELSE "character",
      characterId |-> characterId,
      text |-> StripPhoneEmoji(msg.mes),
      characterName |-> IF isUser THEN OrElse(name1, "User") ELSE characterName,
      isFirstInSequence |-> lastSender # currentSenderKey,
      edited |-> FALSE,
      editedAt |-> 0,
      reconstructed |-> TRUE]

\* the forEach over context.chat: the messages rebuilt from the first n entries
RECURSIVE ReplayMainChat(_, _, _, _)
ReplayMainChat(chatArr, n, inGroup, t) ==
  IF n = 0 THEN <<>>
  ELSE LET before == ReplayMainChat(chatArr, n - 1, inGroup, t)
       IN IF ~chatArr[n].isPhoneMessage THEN before
          ELSE Append(before,
                      ReconstructedMessage(chatArr[n], n - 1, inGroup,
                                           LastSenderOf(before), t))

\* reconstructFromMainChat without its "only if the store is empty" guard
reconstructFromMainChat_Unguarded(store0, key, chatArr, t) ==
  LET store == initializeConversationStore(store0, key)
      rebuilt == ReplayMainChat(chatArr, Len(chatArr), isInGroupChat(key), t)
  IN IF Len(chatArr) = 0 THEN [store |-> store, ret |-> 0]
     ELSE [store |-> [store EXCEPT !.messages = store.messages \o rebuilt,
                                   !.lastSender = LastSenderOf(store.messages \o rebuilt)],
           ret |-> Len(rebuilt)]

reconstructFromMainChat(store0, key, chatArr, t) ==
  LET store == initializeConversationStore(store0, key)
      rebuilt == ReplayMainChat(chatArr, Len(chatArr), isInGroupChat(key), t)
  IN IF Len(store.messages) > 0 THEN [store |-> store, ret |-> 0]
     ELSE IF Len(chatArr) = 0 THEN [store |-> store, ret |-> 0]
     ELSE [store |-> [store EXCEPT !.messages = rebuilt,
                                   !.lastSender = LastSenderOf(rebuilt)],
           ret |-> Len(rebuilt)]

(***************************************************************************)
(* State.                                                                  *)
(***************************************************************************)
VARIABLES
  messageStore,   \* the module-level messageStore object, by conversation key
  chat,           \* the host's chat array (context.chat) of each conversation
  ctxKey,         \* the conversation the host context currently points to
  now,            \* the value Date.now() returns
  group,          \* the host's group object of the group conversation
  pendingDelete,  \* the removed message a caller holds for undo (at most one)
  deleteTimeout,  \* the timer handle in deleteTimeout: the id of the message
                  \* the timer was set for, 0 for null
  timers,         \* the message ids whose finalizeDelete timer is still to fire
  isPhoneOpen,    \* TRUE while the phone is shown
  tasks,          \* the asynchronous handlers in flight
  appended        \* the number of messages appended so far (bounds the run)

storeVars == <<messageStore, chat, now, pendingDelete, appended>>

hostVars == <<ctxKey, group>>

uiVars == <<deleteTimeout, timers, isPhoneOpen, tasks>>

vars == <<messageStore, chat, ctxKey, now, group, pendingDelete, deleteTimeout,
          timers, isPhoneOpen, tasks, appended>>

store == messageStore[ctxKey]

\* getMessages() of the current conversation
getMessages == messageStore[ctxKey].messages

\* the indices into context.characters of the members of the group
GroupMemberIndices == { group.members[i] : i \in 1..Len(group.members) }

\* a group of X (who has an avatar) and Z (who has none), List order
SmallGroup ==
  [members |-> <<1, 3>>, disabled_members |-> {},
   activation_strategy |-> 1, allow_self_responses |-> FALSE]

InitCommon ==
  /\ messageStore = [k \in Keys |-> NoStore]
  /\ chat = [k \in Keys |-> <<>>]
  /\ now = 1
  /\ pendingDelete = <<>>
  /\ deleteTimeout = 0
  /\ timers = {}
  /\ isPhoneOpen = TRUE
  /\ tasks = <<>>
  /\ appended = 0

(***************************************************************************)
(* The store driven through its exported functions.                        *)
(***************************************************************************)
\* Date.now() advances between two calls, or does not
Tick ==
  /\ now < MaxClock
  /\ now' = now + 1
  /\ UNCHANGED <<messageStore, chat, pendingDelete, appended, hostVars, uiVars>>

\* the drafts the callers of addMessage build in the current conversation
Drafts(key, members, texts) ==
  { [sender |-> "user", characterId |-> Null, characterName |-> name1, text |-> t] :
      t \in texts }
  \cup
  IF isInGroupChat(key)
  THEN { [sender |-> "character", characterId |-> MemberId(characters[i]),
          characterName |-> characters[i].name, text |-> t] :
           i \in members, t \in texts }
  ELSE { [sender |-> "character", characterId |-> key,
          characterName |-> name2(key), text |-> t] : t \in texts }

\* addMessage followed by addMessageToMainChat with the new id, as every
\* caller of addMessage does in one synchronous block
addMessageMirrored(draft) ==
  LET r == addMessage(store, ctxKey, draft, now)
  IN /\ appended < MaxAppends
     /\ appended' = appended + 1
     /\ messageStore' = [messageStore EXCEPT ![ctxKey] = r.store]
     /\ chat' = [chat EXCEPT ![ctxKey] =
                   addMessageToMainChat(@, ctxKey, draft.text, draft.sender = "user",
                                        IF draft.sender = "user" THEN Null
                                        ELSE draft.characterName,
                                        r.ret.id, now)]
     /\ UNCHANGED <<now, pendingDelete, hostVars, uiVars>>

AddMessage ==
  \E draft \in Drafts(ctxKey, GroupMemberIndices, {<<"hi">>}) : addMessageMirrored(draft)

\* removeMessage(id); the caller keeps the removed message and its index
RemoveMessage ==
  \E messageId \in 1..MaxClock :
    LET index == FindIndexById(getMessages, messageId)
        r == removeMessage(store, messageId)
    IN /\ r.found
       /\ messageStore' = [messageStore EXCEPT ![ctxKey] = r.store]
       /\ pendingDelete' = <<[messageId |-> messageId, message |-> r.ret[1],
                              index |-> index - 1]>>
       /\ UNCHANGED <<chat, now, appended, hostVars, uiVars>>

\* restoreMessage(message, index) or restoreMessage(message)
RestoreMessage ==
  /\ pendingDelete # <<>>
  /\ \E atIndex \in {pendingDelete[1].index, -1} :
       messageStore' = [messageStore EXCEPT ![ctxKey] =
                          restoreMessage(@, ctxKey, pendingDelete[1].message, atIndex)]
  /\ pendingDelete' = <<>>
  /\ UNCHANGED <<chat, now, appended, hostVars, uiVars>>

EditMessage ==
  \E messageId \in 1..MaxClock :
    LET r == editMessage(store, messageId, <<"yo">>, now)
    IN /\ r.found
       /\ messageStore' = [messageStore EXCEPT ![ctxKey] = r.store]
       /\ UNCHANGED <<chat, now, pendingDelete, appended, hostVars, uiVars>>

ClearMessages ==
  /\ messageStore' = [messageStore EXCEPT ![ctxKey] = clearMessages(@)]
  /\ UNCHANGED <<chat, now, pendingDelete, appended, hostVars, uiVars>>

SyncWithMainChat ==
  LET r == syncWithMainChat(store, chat[ctxKey])
  IN /\ messageStore' = [messageStore EXCEPT ![ctxKey] = r.store]
     /\ UNCHANGED <<chat, now, pendingDelete, appended, hostVars, uiVars>>

ReconstructFromMainChat ==
  LET r == reconstructFromMainChat(store, ctxKey, chat[ctxKey], now)
  IN /\ messageStore' = [messageStore EXCEPT ![ctxKey] = r.store]
     /\ UNCHANGED <<chat, now, pendingDelete, appended, hostVars, uiVars>>

\* the user deletes an entry in the host's own chat view
HostDeletesEntry ==
  \E i \in 1..Len(chat[ctxKey]) :
    /\ chat' = [chat EXCEPT ![ctxKey] = RemoveAt(@, i)]
    /\ UNCHANGED <<messageStore, now, pendingDelete, appended, hostVars, uiVars>>

\* clearAllMessages(): every conversation is dropped (also a page reload)
ClearAllMessages ==
  /\ messageStore' = [k \in Keys |-> NoStore]
  /\ UNCHANGED <<chat, now, pendingDelete, appended, hostVars, uiVars>>

InitStore ==
  /\ InitCommon
  /\ ctxKey \in Keys
  /\ group = SmallGroup

NextStore ==
  \/ Tick
  \/ AddMessage
  \/ RemoveMessage
  \/ RestoreMessage
  \/ EditMessage
  \/ ClearMessages

SpecStore == InitStore /\ [][NextStore]_vars

(***************************************************************************)
(* A conversation built by appending only.                                 *)
(***************************************************************************)
NextAppend ==
  \/ Tick
  \/ AddMessage
  \/ ClearMessages

SpecAppend == InitStore /\ [][NextAppend]_vars

(***************************************************************************)
(* The store and the main chat under reconciliation.                       *)
(***************************************************************************)
NextReconcile ==
  \/ Tick
  \/ AddMessage
  \/ HostDeletesEntry
  \/ SyncWithMainChat
  \/ ReconstructFromMainChat
  \/ ClearAllMessages

SpecReconcile == InitStore /\ [][NextReconcile]_vars

(***************************************************************************)
(* Reload: the store is lost and rebuilt from the main chat.               *)
(***************************************************************************)
\* the texts of the stored messages: a plain text, and a text the user has
\* typed with the phone emoji in front
TypedTexts == { <<"hi">>, <<PhoneEmoji, "hi">> }

\* a message is stored and mirrored with the text as it was typed
AddTypedMessage ==
  \E draft \in Drafts(ctxKey, GroupMemberIndices, TypedTexts) : addMessageMirrored(draft)

NextReload ==
  \/ Tick
  \/ AddTypedMessage
  \/ ClearAllMessages
  \/ ReconstructFromMainChat

SpecReload == InitStore /\ [][NextReload]_vars

(***************************************************************************)
(* Group turn selection (phone-ui.js).  A responder is <<character>> and   *)
(* "no responder" (null) is <<>>.  Math.random() makes the Natural and     *)
(* Pooled strategies return one of a set of responders.                    *)
(***************************************************************************)
\* String.prototype.toLowerCase on the words of the model
Lower(w) ==
  IF w = "X" THEN "x" ELSE IF w = "Y" THEN "y" ELSE IF w = "Z" THEN "z" ELSE w

\* new RegExp(`\\b${name.toLowerCase()}\\b`).test(text.toLowerCase())
NameMentioned(charName, text) ==
  \E i \in 1..Len(text) : Lower(text[i]) = Lower(charName)

getGroupMembers(g) == [i \in 1..Len(g.members) |-> characters[g.members[i]]]

\* a roster from which nobody is filtered out
ActiveMembersOf_All(g) ==
  getGroupMembers(g)

\* members.filter(m => !disabledMembers.includes(m.avatar || m.name))
ActiveMembersOf(g) ==
  LET NotDisabled(m) == MemberId(m) \notin g.disabled_members
  IN SelectSeq(getGroupMembers(g), NotDisabled)

\* [...messages].reverse().find(m => m.sender === sender), as <<message>> or <<>>
LastMessageFrom(messages, sender) ==
  LET idxs == { i \in 1..Len(messages) : messages[i].sender = sender }
  IN IF idxs = {} THEN <<>>
     ELSE <<messages[CHOOSE i \in idxs : \A j \in idxs : j <= i]>>

LastCharIdOf(messages) ==
  LET last == LastMessageFrom(messages, "character")
  IN IF last = <<>> THEN Null ELSE last[1].characterId

EligibleOf(g, messages) ==
  LET active == ActiveMembersOf(g)
      lastCharId == LastCharIdOf(messages)
      NotLast(m) == MemberId(m) # lastCharId
      filtered == SelectSeq(active, NotLast)
  IN IF ~g.allow_self_responses /\ Truthy(lastCharId) /\ Len(active) > 1
     THEN (IF Len(filtered) = 0 THEN active ELSE filtered)
     ELSE active

SeqToSet(s) == { s[i] : i \in 1..Len(s) }

getCharactersWhoSpokeSinceLastUser(messages) ==
  { messages[i].characterId : i \in { j \in 1..Len(messages) :
      /\ messages[j].sender = "character"
      /\ Truthy(messages[j].characterId)
      /\ \A k \in j..Len(messages) : messages[k].sender # "user" } }

\* case 0: a mentioned eligible member, else a draw by talkativeness
NaturalChoices(eligible, messages) ==
  LET lastUser == LastMessageFrom(messages, "user")
      text == IF lastUser = <<>> THEN <<>> ELSE lastUser[1].text
      IsMentioned(m) == NameMentioned(m.name, text)
      mentioned == SelectSeq(eligible, IsMentioned)
      always == { m \in SeqToSet(eligible) : m.talkativeness >= 100 }
      maybe == { m \in SeqToSet(eligible) : m.talkativeness > 0 }
  IN IF Len(mentioned) > 0 THEN { <<mentioned[1]>> }
     ELSE { <<m>> : m \in maybe \cup (IF always = {} THEN SeqToSet(eligible) ELSE {}) }

\* a next slot one step too far: skips the member after the last speaker
ListChoice_SkipOne(active, eligible, lastCharId, allowSelf) ==
  LET n == Len(active)
      lastIdxs == { i \in 1..n : MemberId(active[i]) = lastCharId }
  IN IF Truthy(lastCharId) /\ lastIdxs # {}
     THEN active[(((CHOOSE i \in lastIdxs : \A j \in lastIdxs : i <= j) + 1) % n) + 1]
     ELSE eligible[1]

\* case 1: the first member after the last speaker, in roster order, wrapping
ListChoice(active, eligible, lastCharId, allowSelf) ==
  LET n == Len(active)
      lastIdxs == { i \in 1..n : MemberId(active[i]) = lastCharId }
      lastIdx == IF Truthy(lastCharId) /\ lastIdxs # {}
                 THEN CHOOSE i \in lastIdxs : \A j \in lastIdxs : i <= j
                 ELSE 0
      SlotAfter(i) == active[((lastIdx - 1 + i) % n) + 1]
      steps == { i \in 1..n : allowSelf \/ MemberId(SlotAfter(i)) # lastCharId }
  IN IF lastIdx # 0 /\ steps # {}
     THEN SlotAfter(CHOOSE i \in steps : \A j \in steps : i <= j)
     ELSE eligible[1]

\* a pooled draw that forgets who has spoken: any eligible member
PooledChoices_AnyEligible(eligible, messages) ==
  { <<m>> : m \in SeqToSet(eligible) }

\* case 2: a member who has not spoken since the last user message, if any
PooledChoices(eligible, messages) ==
  LET spoken == getCharactersWhoSpokeSinceLastUser(messages)
      unspoken == { m \in SeqToSet(eligible) : MemberId(m) \notin spoken }
  IN IF unspoken # {} THEN { <<m>> : m \in unspoken }
     ELSE { <<m>> : m \in SeqToSet(eligible) }

\* the set of responders getNextGroupCharacter() can return
getNextGroupCharacter(g, messages) ==
  LET members == getGroupMembers(g)
      active == ActiveMembersOf(g)
      eligible == EligibleOf(g, messages)
  IN IF Len(members) = 0 THEN { <<>> }
     ELSE IF Len(active) = 0 THEN { <<members[1]>> }
     ELSE IF g.activation_strategy = 0 THEN NaturalChoices(eligible, messages)
     ELSE IF g.activation_strategy = 1
     THEN { <<ListChoice(active, eligible, LastCharIdOf(messages),
                         g.allow_self_responses)>> }
     ELSE IF g.activation_strategy = 2 THEN PooledChoices(eligible, messages)
     ELSE IF g.activation_strategy = 3 THEN { <<>> }
     ELSE { <<eligible[1]>> }

\* the active members whose name the text mentions, in roster order
getMentionedCharacters(g, text) ==
  LET IsMentioned(m) == NameMentioned(m.name, text)
  IN SelectSeq(ActiveMembersOf(g), IsMentioned)

(***************************************************************************)
(* The handlers of the phone UI.  An async handler that has reached an     *)
(* await is a record of tasks; pc names the await it is suspended at.      *)
(***************************************************************************)
MaxUiMessages == 3
MaxTasks == 1

UserTexts == { <<"hi">>, <<"y">>, <<"Z", "y">> }

\* a whitespace word, and String.prototype.trim on a text
Space == " "

RECURSIVE TrimStart(_)
TrimStart(text) ==
  IF Len(text) > 0 /\ text[1] = Space THEN TrimStart(Tail(text)) ELSE text

RECURSIVE TrimEnd(_)
TrimEnd(text) ==
  IF Len(text) > 0 /\ text[Len(text)] = Space
  THEN TrimEnd(SubSeq(text, 1, Len(text) - 1)) ELSE text

Trim(text) == TrimEnd(TrimStart(text))

\* what the user can submit from the input field
UserInputs == UserTexts \cup { <<>>, <<Space>>, <<Space, "hi", Space>> }

\* what context.generateQuietPrompt can resolve to; it can also throw
\* what the generator returns: a reply, nothing, the phone emoji alone, the
\* phone emoji and an echo of Y's name
Responses == { <<"ok">>, <<>>, <<PhoneEmoji>>, <<PhoneEmoji, "Y:">> }

GroupConfigs ==
  [members : { <<1, 2, 3>> },
   disabled_members : { {}, {"x.png"}, {"y.png"}, {"x.png", "y.png", "Z"} },
   activation_strategy : 0..3,
   allow_self_responses : BOOLEAN]
  \cup
  [members : { <<>> }, disabled_members : { {} },
   activation_strategy : {1}, allow_self_responses : {FALSE}]

NameEcho(charName) ==
  IF charName = "X" THEN "X:" ELSE IF charName = "Y" THEN "Y:"
  ELSE IF charName = "Z" THEN "Z:" ELSE Null

\* the cleanup of a generated reply: the leading phone emoji, then a
\* leading "Name:" echo
CleanResponse(response, charName) ==
  LET noEmoji == StripPhoneEmoji(response)
  IN IF Len(noEmoji) > 0 /\ noEmoji[1] = NameEcho(charName)
     THEN Tail(noEmoji) ELSE noEmoji

\* a handler in flight: text is the userText parameter until the responders
\* are chosen, history the conversation put into the prompt of the generation
\* it waits for, notices counts the error toasts the handler has shown and
\* thrown the times the generator threw in it
Task(kind, pc) ==
  [kind |-> kind, pc |-> pc, text |-> <<>>, plan |-> <<>>, pos |-> 0,
   charId |-> Null, charName |-> Null, history |-> <<>>, notices |-> 0, thrown |-> 0,
   dels |-> <<>>, k |-> 0, targetId |-> Null, targetName |-> Null, messageId |-> 0]

\* the handler returns or throws out of its last await
EndTask(ts, i) == RemoveAt(ts, i)

\* sendUserMessage without the check of the trimmed text
sendUserMessage_NoTrimCheck(text) ==
  LET trimmedText == Trim(text)
      r == addMessage(store, ctxKey,
                      [sender |-> "user", characterId |-> Null,
                       characterName |-> name1, text |-> trimmedText], now)
  IN /\ messageStore' = [messageStore EXCEPT ![ctxKey] = r.store]
     /\ chat' = [chat EXCEPT ![ctxKey] =
                   addMessageToMainChat(@, ctxKey, trimmedText, TRUE, Null, r.ret.id, now)]
     /\ now' = now + 1
     /\ appended' = appended + 1
     /\ tasks' = Append(tasks, [Task("send", "mirrorUser") EXCEPT !.text = trimmedText])
     /\ UNCHANGED <<pendingDelete, deleteTimeout, timers, isPhoneOpen, hostVars>>

\* sendUserMessage(text) up to its first await: a text that is empty once
\* trimmed returns at once, any other is stored and pushed to the main chat
sendUserMessage(text) ==
  LET trimmedText == Trim(text)
      r == addMessage(store, ctxKey,
                      [sender |-> "user", characterId |-> Null,
                       characterName |-> name1, text |-> trimmedText], now)
  IN IF Len(trimmedText) = 0 THEN UNCHANGED vars
     ELSE /\ messageStore' = [messageStore EXCEPT ![ctxKey] = r.store]
          /\ chat' = [chat EXCEPT ![ctxKey] =
                        addMessageToMainChat(@, ctxKey, trimmedText, TRUE, Null,
                                             r.ret.id, now)]
          /\ now' = now + 1
          /\ appended' = appended + 1
          /\ tasks' = Append(tasks, [Task("send", "mirrorUser") EXCEPT
                                       !.text = trimmedText])
          /\ UNCHANGED <<pendingDelete, deleteTimeout, timers, isPhoneOpen, hostVars>>

\* the user submits the input field of the open phone
SendUserMessage ==
  /\ isPhoneOpen
  /\ Len(tasks) < MaxTasks
  /\ appended < MaxUiMessages
  /\ \E text \in UserInputs : sendUserMessage(text)

\* the number of messages buildPhoneConversationPrompt asks for
HistoryCount == 10

\* getLastMessages(count): messages.slice(-count)
getLastMessages(messages, count) ==
  IF Len(messages) <= count THEN messages
  ELSE SubSeq(messages, Len(messages) - count + 1, Len(messages))

\* buildPhoneConversationPrompt(): a "sender: text" line for each of the last
\* messages of the conversation
buildPhoneConversationPrompt(key, messages) ==
  LET last == getLastMessages(messages, HistoryCount)
      SenderName(msg) ==
        IF msg.sender = "user" THEN name1
        ELSE IF isInGroupChat(key) /\ Truthy(msg.characterName) THEN msg.characterName
        ELSE OrElse(name2(key), "Character")
  IN [j \in 1..Len(last) |-> [sender |-> SenderName(last[j]), text |-> last[j].text]]

\* a fan-out that builds the prompt once, for its first responder
GenerateFor_StaleHistory(task, plan, pos) ==
  [task EXCEPT !.pc = "generatingFor", !.text = <<>>, !.plan = plan, !.pos = pos,
               !.charId = MemberId(plan[pos]), !.charName = plan[pos].name,
               !.history = IF pos = 1
                           THEN buildPhoneConversationPrompt(ctxKey, getMessages)
                           ELSE @]

\* generateCharacterResponseFor(character) up to the await of the generator
GenerateFor(task, plan, pos) ==
  [task EXCEPT !.pc = "generatingFor", !.text = <<>>, !.plan = plan, !.pos = pos,
               !.charId = MemberId(plan[pos]), !.charName = plan[pos].name,
               !.history = buildPhoneConversationPrompt(ctxKey, getMessages)]

\* generateCharacterResponse() up to the await of the generator: the tasks
\* list with task i suspended at the generator, or ended when there is no
\* responder
GenerateCharacterResponse(i) ==
  IF isInGroupChat(ctxKey)
  THEN { IF activeChar = <<>> THEN EndTask(tasks, i)
         ELSE [tasks EXCEPT ![i] =
                 [@ EXCEPT !.pc = "generating", !.text = <<>>,
                           !.charId = MemberId(activeChar[1]),
                           !.charName = activeChar[1].name,
                           !.history = buildPhoneConversationPrompt(ctxKey, getMessages)]] :
           activeChar \in getNextGroupCharacter(group, getMessages) }
  ELSE { [tasks EXCEPT ![i] =
            [@ EXCEPT !.pc = "generating", !.text = <<>>,
                      !.charId = ctxKey,
                      !.charName = OrElse(name2(ctxKey), "Character"),
                      !.history = buildPhoneConversationPrompt(ctxKey, getMessages)]] }

\* generateGroupResponses with a single responder for several mentions
generateGroupResponses_NoFanOut(i) ==
  LET mentioned == getMentionedCharacters(group, tasks[i].text)
  IN IF group.activation_strategy = 0 /\ Len(mentioned) >= 1
     THEN { [tasks EXCEPT ![i] = GenerateFor(@, <<mentioned[1]>>, 1)] }
     ELSE GenerateCharacterResponse(i)

\* generateGroupResponses(userText): the possible tasks lists after it has
\* run to its first await
generateGroupResponses(i) ==
  LET mentioned == getMentionedCharacters(group, tasks[i].text)
  IN IF group.activation_strategy = 0 /\ Len(mentioned) >= 1
     THEN { [tasks EXCEPT ![i] = GenerateFor(@, mentioned, 1)] }
     ELSE GenerateCharacterResponse(i)

\* sendUserMessage resumes after the user message is mirrored and starts
\* the generation of the reply or replies
StartResponses(i) ==
  /\ tasks[i].kind = "send" /\ tasks[i].pc = "mirrorUser"
  /\ tasks' \in (IF isInGroupChat(ctxKey) THEN generateGroupResponses(i)
                 ELSE GenerateCharacterResponse(i))
  /\ UNCHANGED <<storeVars, deleteTimeout, timers, isPhoneOpen, hostVars>>

\* the tasks list after task i has finished the turn of its current
\* responder: the next mentioned character, the end of regenerateFromMessage
\* or the end of the handler
AfterTurn(ts, i) ==
  IF ts[i].pc \in {"generatingFor", "mirrorReplyFor"} /\ ts[i].pos < Len(ts[i].plan)
  THEN [ts EXCEPT ![i] = GenerateFor(@, @.plan, @.pos + 1)]
  ELSE EndTask(ts, i)

\* the error toasts of handler i once the generator has thrown at it
NoticesAfterThrow(i) ==
  IF tasks[i].pc = "generating" THEN tasks[i].notices + 1 ELSE tasks[i].notices

\* the generator throws and the exception leaves the handler: nobody after
\* the failing character is asked
GenerationThrows_EndsRun(i) ==
  /\ tasks[i].pc \in {"generating", "generatingFor"}
  /\ tasks' = EndTask(tasks, i)
  /\ UNCHANGED <<storeVars, deleteTimeout, timers, isPhoneOpen, hostVars>>

\* the generator throws: console.error in generateCharacterResponseFor,
\* an error toast in generateCharacterResponse
GenerationThrows(i) ==
  /\ tasks[i].pc \in {"generating", "generatingFor"}
  /\ tasks' = AfterTurn([tasks EXCEPT ![i].thrown = @ + 1,
                                      ![i].notices = NoticesAfterThrow(i)], i)
  /\ UNCHANGED <<storeVars, deleteTimeout, timers, isPhoneOpen, hostVars>>

\* the handler resumes with the generator's response: the reply is cleaned,
\* stored and pushed to the main chat, or the turn is abandoned when nothing
\* is left of it
generationReturnsWithin(i, response, limit) ==
  LET characterText == CleanResponse(response, tasks[i].charName)
      r == addMessage(store, ctxKey,
                      [sender |-> "character", characterId |-> tasks[i].charId,
                       characterName |-> tasks[i].charName, text |-> characterText], now)
  IN /\ tasks[i].pc \in {"generating", "generatingFor"}
     /\ IF Len(response) = 0 \/ Len(characterText) = 0
        THEN /\ tasks' = AfterTurn(tasks, i)
             /\ UNCHANGED <<storeVars>>
        ELSE /\ appended < limit
             /\ messageStore' = [messageStore EXCEPT ![ctxKey] = r.store]
             /\ chat' = [chat EXCEPT ![ctxKey] =
                           addMessageToMainChat(@, ctxKey, characterText, FALSE,
                                                tasks[i].charName, r.ret.id, now)]
             /\ now' = now + 1
             /\ appended' = appended + 1
             /\ tasks' = [tasks EXCEPT ![i].pc =
                            IF @ = "generating" THEN "mirrorReply" ELSE "mirrorReplyFor"]
             /\ UNCHANGED <<pendingDelete>>
     /\ UNCHANGED <<deleteTimeout, timers, isPhoneOpen, hostVars>>

\* the handler stores whatever the cleanup leaves, an empty text included
generationReturns_KeepsEmpty(i, response) ==
  LET characterText == CleanResponse(response, tasks[i].charName)
      r == addMessage(store, ctxKey,
                      [sender |-> "character", characterId |-> tasks[i].charId,
                       characterName |-> tasks[i].charName, text |-> characterText], now)
  IN /\ tasks[i].pc \in {"generating", "generatingFor"}
     /\ appended < MaxUiMessages
     /\ messageStore' = [messageStore EXCEPT ![ctxKey] = r.store]
     /\ chat' = [chat EXCEPT ![ctxKey] =
                   addMessageToMainChat(@, ctxKey, characterText, FALSE,
                                        tasks[i].charName, r.ret.id, now)]
     /\ now' = now + 1
     /\ appended' = appended + 1
     /\ tasks' = [tasks EXCEPT ![i].pc =
                    IF @ = "generating" THEN "mirrorReply" ELSE "mirrorReplyFor"]
     /\ UNCHANGED <<pendingDelete, deleteTimeout, timers, isPhoneOpen, hostVars>>

\* generateCharacterResponse and generateCharacterResponseFor past the
\* await of the generator
generationReturns(i, response) ==
  generationReturnsWithin(i, response, MaxUiMessages)

\* the generator resolves with one of its responses
GenerationReturns(i) ==
  \E response \in Responses : generationReturns(i, response)

\* the handler resumes after the reply is mirrored
ReplyMirrored(i) ==
  /\ tasks[i].pc \in {"mirrorReply", "mirrorReplyFor"}
  /\ tasks' = AfterTurn(tasks, i)
  /\ UNCHANGED <<storeVars, deleteTimeout, timers, isPhoneOpen, hostVars>>

\* the user changes the group's settings or mutes members in the host
HostChangesGroup ==
  /\ isInGroupChat(ctxKey)
  /\ group' \in GroupConfigs
  /\ group' # group
  /\ UNCHANGED <<storeVars, ctxKey, uiVars>>

\* finalizeDelete(messageId) finds the pending deletion it was called for
FinalizeMatches(messageId) ==
  pendingDelete # <<>> /\ pendingDelete[1].messageId = messageId

\* finalizeDelete(messageId) up to its await: the main chat entry of the
\* pending deletion is spliced out, the rest runs when the save has resolved
FinalizeDeleteStarts(chatArr, messageId) ==
  IF FinalizeMatches(messageId)
  THEN deleteMessageFromMainChat(chatArr, messageId)
  ELSE chatArr

\* the suspended finalizeDelete, if it has an await to wait at
FinalizeDeleteTask(messageId) ==
  IF FinalizeMatches(messageId)
  THEN <<[Task("finalize", "deleting") EXCEPT !.messageId = messageId]>>
  ELSE <<>>

\* deleteTimeout when finalizeDelete(messageId) has run to its await, or to
\* its end when there is nothing to await
FinalizeDeleteTimeout(messageId) ==
  IF FinalizeMatches(messageId) THEN deleteTimeout ELSE 0

\* clearTimeout(deleteTimeout): the timer of the handle never fires
ClearTimeout(handle) == timers \ {handle}

\* parseInt(characterId, 10) for the character ids of the model; -1 is NaN
ParseInt(characterId) ==
  IF characterId = "0" THEN 0 ELSE IF characterId = "1" THEN 1
  ELSE IF characterId = "2" THEN 2 ELSE -1

\* the character regenerateForCharacter finds, by index and then by name
RegenerateCharacterLookup(characterId, characterName) ==
  IF ParseInt(characterId) >= 0 /\ ParseInt(characterId) < Len(characters)
  THEN <<characters[ParseInt(characterId) + 1]>>
  ELSE IF CharIndexByName(characterName) # -1
  THEN <<characters[CharIndexByName(characterName) + 1]>>
  ELSE <<>>

\* a deletion loop that starts at the target and moves forward
RegenerateFrom_OldestFirst(messageId) ==
  LET index == FindIndexById(getMessages, messageId)
      message == getMessages[index]
      ids == [j \in 1..(Len(getMessages) - index + 1) |-> getMessages[index + j - 1].id]
      cancels == deleteTimeout # 0 /\ pendingDelete # <<>>
      pendingId == pendingDelete[1].messageId
      r == removeMessage(store, ids[1])
  IN /\ messageStore' = [messageStore EXCEPT ![ctxKey] = r.store]
     /\ chat' = [chat EXCEPT ![ctxKey] =
                   deleteMessageFromMainChat(
                     IF cancels THEN FinalizeDeleteStarts(@, pendingId) ELSE @, ids[1])]
     /\ timers' = IF deleteTimeout # 0 THEN ClearTimeout(deleteTimeout) ELSE timers
     /\ tasks' = (IF cancels THEN tasks \o FinalizeDeleteTask(pendingId) ELSE tasks)
                 \o <<[Task("regen", "regenDeleting") EXCEPT
                         !.dels = Tail(ids), !.k = index - 1,
                         !.targetId = message.characterId,
                         !.targetName = message.characterName]>>
     /\ UNCHANGED <<now, pendingDelete, appended, deleteTimeout, isPhoneOpen, hostVars>>

\* regenerateFromMessage(messageId) past the check of its target: a pending
\* deletion is finalized, the messages from the target on are collected and
\* the last of them is removed from the store and the main chat
RegenerateFrom(messageId) ==
  LET index == FindIndexById(getMessages, messageId)
      message == getMessages[index]
      ids == [j \in 1..(Len(getMessages) - index + 1) |->
                getMessages[Len(getMessages) - j + 1].id]
      cancels == deleteTimeout # 0 /\ pendingDelete # <<>>
      pendingId == pendingDelete[1].messageId
      r == removeMessage(store, ids[1])
  IN /\ messageStore' = [messageStore EXCEPT ![ctxKey] = r.store]
     /\ chat' = [chat EXCEPT ![ctxKey] =
                   deleteMessageFromMainChat(
                     IF cancels THEN FinalizeDeleteStarts(@, pendingId) ELSE @, ids[1])]
     /\ timers' = IF deleteTimeout # 0 THEN ClearTimeout(deleteTimeout) ELSE timers
     /\ tasks' = (IF cancels THEN tasks \o FinalizeDeleteTask(pendingId) ELSE tasks)
                 \o <<[Task("regen", "regenDeleting") EXCEPT
                         !.dels = Tail(ids), !.k = index - 1,
                         !.targetId = message.characterId,
                         !.targetName = message.characterName]>>
     /\ UNCHANGED <<now, pendingDelete, appended, deleteTimeout, isPhoneOpen, hostVars>>

\* regenerateFromMessage that checks only that the target is in the store
regenerateFromMessage_AnyTarget(messageId) ==
  IF ~store.exists \/ FindIndexById(getMessages, messageId) = 0
  THEN UNCHANGED vars
  ELSE RegenerateFrom(messageId)

\* regenerateFromMessage(messageId) up to its first await: a target that is
\* missing or a user message makes it return at once
regenerateFromMessage(messageId) ==
  IF \/ ~store.exists
     \/ FindIndexById(getMessages, messageId) = 0
     \/ getMessages[FindIndexById(getMessages, messageId)].sender = "user"
  THEN UNCHANGED vars
  ELSE RegenerateFrom(messageId)

\* the user picks Regenerate in the menu of a message, or of a row whose
\* message is gone
RegenerateFromMessage ==
  /\ isPhoneOpen
  /\ Len(tasks) < MaxTasks
  /\ \E messageId \in 1..now : regenerateFromMessage(messageId)

\* the deletion loop resumes: the next message, going backward, is removed
\* from the store and the main chat
RegenerateDeleteNext(i) ==
  LET r == removeMessage(store, tasks[i].dels[1])
  IN /\ tasks[i].pc = "regenDeleting"
     /\ tasks[i].dels # <<>>
     /\ messageStore' = [messageStore EXCEPT ![ctxKey] = r.store]
     /\ chat' = [chat EXCEPT ![ctxKey] = deleteMessageFromMainChat(@, tasks[i].dels[1])]
     /\ tasks' = [tasks EXCEPT ![i].dels = Tail(@)]
     /\ UNCHANGED <<now, pendingDelete, appended, deleteTimeout, timers, isPhoneOpen, hostVars>>

\* regenerateForCharacter(characterId, characterName): with the character
\* found it calls generateResponseForCharacter, a name no module defines, so
\* the call throws a ReferenceError and the handler ends; without it
\* generateCharacterResponse() draws a responder
regenerateForCharacter(i) ==
  IF RegenerateCharacterLookup(tasks[i].targetId, tasks[i].targetName) # <<>>
  THEN { EndTask(tasks, i) }
  ELSE GenerateCharacterResponse(i)

\* the deletion loop is over: the reply is generated again
RegenerateRespond(i) ==
  /\ tasks[i].pc = "regenDeleting"
  /\ tasks[i].dels = <<>>
  /\ tasks' \in (IF isInGroupChat(ctxKey) /\ Truthy(tasks[i].targetId)
                 THEN regenerateForCharacter(i)
                 ELSE GenerateCharacterResponse(i))
  /\ UNCHANGED <<storeVars, deleteTimeout, timers, isPhoneOpen, hostVars>>

InitUI ==
  /\ InitCommon
  /\ ctxKey \in Keys
  /\ group = [members |-> <<1, 2, 3>>, disabled_members |-> {},
              activation_strategy |-> 1, allow_self_responses |-> FALSE]

NextUI ==
  \/ SendUserMessage
  \/ \E i \in 1..Len(tasks) : StartResponses(i)
  \/ \E i \in 1..Len(tasks) : GenerationThrows(i)
  \/ \E i \in 1..Len(tasks) : GenerationReturns(i)
  \/ \E i \in 1..Len(tasks) : ReplyMirrored(i)
  \/ RegenerateFromMessage
  \/ \E i \in 1..Len(tasks) : RegenerateDeleteNext(i)
  \/ \E i \in 1..Len(tasks) : RegenerateRespond(i)
  \/ HostChangesGroup

SpecUI == InitUI /\ [][NextUI]_vars

(***************************************************************************)
(* Sends that overlap: nothing in sendUserMessage or in the handlers of    *)
(* the send button and the Enter key waits for an earlier send to finish.  *)
(***************************************************************************)
MaxOverlap == 2
MaxOverlapMessages == 4

\* the user submits again while earlier sends are awaiting their replies
SendWhileGenerating ==
  /\ isPhoneOpen
  /\ Len(tasks) < MaxOverlap
  /\ appended < MaxOverlapMessages
  /\ sendUserMessage(<<"hi">>)

\* the generator resolves for one of the sends in flight
OverlappedGenerationReturns(i) ==
  \E response \in Responses : generationReturnsWithin(i, response, MaxOverlapMessages)

NextOverlap ==
  \/ SendWhileGenerating
  \/ \E i \in 1..Len(tasks) : StartResponses(i)
  \/ \E i \in 1..Len(tasks) : GenerationThrows(i)
  \/ \E i \in 1..Len(tasks) : OverlappedGenerationReturns(i)
  \/ \E i \in 1..Len(tasks) : ReplyMirrored(i)

SpecOverlap == InitUI /\ [][NextOverlap]_vars

(***************************************************************************)
(* Deleting with undo, editing, closing the phone and switching chats.     *)
(***************************************************************************)
\* deleteMessageWithUndo(messageId): the message leaves the store at once, a
\* deletion still pending is finalized, and the new one is kept in
\* pendingDelete with a timer for finalizeDelete
deleteMessageWithUndo(messageId) ==
  LET index == FindIndexById(getMessages, messageId)
      r == removeMessage(store, messageId)
      finalizes == deleteTimeout # 0 /\ pendingDelete # <<>>
      pendingId == pendingDelete[1].messageId
  IN IF ~store.exists \/ index = 0 THEN UNCHANGED vars
     ELSE /\ messageStore' = [messageStore EXCEPT ![ctxKey] = r.store]
          /\ chat' = [chat EXCEPT ![ctxKey] =
                        IF finalizes THEN FinalizeDeleteStarts(@, pendingId) ELSE @]
          /\ tasks' = IF finalizes THEN tasks \o FinalizeDeleteTask(pendingId) ELSE tasks
          /\ pendingDelete' = <<[messageId |-> messageId, message |-> r.ret[1],
                                 index |-> index - 1]>>
          /\ deleteTimeout' = messageId
          /\ timers' = (IF deleteTimeout # 0 THEN ClearTimeout(deleteTimeout) ELSE timers)
                       \cup {messageId}
          /\ UNCHANGED <<now, appended, isPhoneOpen, hostVars>>

\* the user picks Delete in the menu of a message row
DeleteMessageWithUndo ==
  /\ isPhoneOpen
  /\ Len(tasks) < MaxTasks
  /\ \E messageId \in 1..now : deleteMessageWithUndo(messageId)

\* undoDelete(): the pending message goes back into the store of the
\* current conversation
undoDelete ==
  IF pendingDelete = <<>> THEN UNCHANGED vars
  ELSE /\ messageStore' = [messageStore EXCEPT ![ctxKey] =
                             restoreMessage(@, ctxKey, pendingDelete[1].message,
                                            pendingDelete[1].index)]
       /\ timers' = IF deleteTimeout # 0 THEN ClearTimeout(deleteTimeout) ELSE timers
       /\ deleteTimeout' = 0
       /\ pendingDelete' = <<>>
       /\ UNCHANGED <<chat, now, appended, isPhoneOpen, tasks, hostVars>>

\* the user clicks Undo in the toast
UndoDelete ==
  /\ isPhoneOpen
  /\ undoDelete

\* the timer set by deleteMessageWithUndo fires: finalizeDelete(messageId)
\* runs to its await, or to its end when another deletion is pending
DeleteTimerFires ==
  \E messageId \in timers :
    /\ timers' = timers \ {messageId}
    /\ chat' = [chat EXCEPT ![ctxKey] = FinalizeDeleteStarts(@, messageId)]
    /\ tasks' = tasks \o FinalizeDeleteTask(messageId)
    /\ deleteTimeout' = FinalizeDeleteTimeout(messageId)
    /\ UNCHANGED <<messageStore, now, pendingDelete, appended, isPhoneOpen, hostVars>>

\* finalizeDelete resumes after the main chat is saved: it clears whatever
\* pendingDelete holds by now and the timer handle; with pendingDelete
\* already null, pendingDelete.$row throws and the handle is left as it is
FinalizeDeleteResumes(i) ==
  /\ tasks[i].kind = "finalize" /\ tasks[i].pc = "deleting"
  /\ tasks' = EndTask(tasks, i)
  /\ pendingDelete' = <<>>
  /\ deleteTimeout' = IF pendingDelete = <<>> THEN deleteTimeout ELSE 0
  /\ UNCHANGED <<messageStore, chat, now, appended, timers, isPhoneOpen, hostVars>>

\* closePhoneUI(): cleanupMessageInteractionHandlers clears the timer and
\* starts finalizeDelete for the pending deletion
ClosePhoneUI ==
  LET finalizes == deleteTimeout # 0 /\ pendingDelete # <<>>
      pendingId == pendingDelete[1].messageId
  IN /\ isPhoneOpen
     /\ Len(tasks) < MaxTasks
     /\ isPhoneOpen' = FALSE
     /\ timers' = IF deleteTimeout # 0 THEN ClearTimeout(deleteTimeout) ELSE timers
     /\ chat' = [chat EXCEPT ![ctxKey] =
                   IF finalizes THEN FinalizeDeleteStarts(@, pendingId) ELSE @]
     /\ tasks' = IF finalizes THEN tasks \o FinalizeDeleteTask(pendingId) ELSE tasks
     /\ UNCHANGED <<messageStore, now, pendingDelete, appended, deleteTimeout, hostVars>>

\* the user opens another chat in the host; the extension is not told
HostSwitchesChat ==
  /\ ctxKey' \in Keys \ {ctxKey}
  /\ UNCHANGED <<storeVars, group, uiVars>>

\* what the user leaves in the edit box: a text, a padded text, a blank
EditTexts == { <<"yo">>, <<Space, "yo">>, <<Space>> }

\* saveEdit that edits the store and leaves the main chat alone
saveEdit_StoreOnly(messageId, newText) ==
  LET trimmedText == Trim(newText)
      r == editMessage(store, messageId, trimmedText, now)
  IN IF Len(trimmedText) = 0 \/ ~r.found THEN UNCHANGED vars
     ELSE /\ messageStore' = [messageStore EXCEPT ![ctxKey] = r.store]
          /\ UNCHANGED <<chat, now, pendingDelete, appended, hostVars, uiVars>>

\* saveEdit(messageId, newText) up to its await: the store and the main
\* chat entry get the trimmed text
saveEdit(messageId, newText) ==
  LET trimmedText == Trim(newText)
      r == editMessage(store, messageId, trimmedText, now)
  IN IF Len(trimmedText) = 0 \/ ~r.found THEN UNCHANGED vars
     ELSE /\ messageStore' = [messageStore EXCEPT ![ctxKey] = r.store]
          /\ chat' = [chat EXCEPT ![ctxKey] =
                        editMessageInMainChat(@, messageId, trimmedText, now)]
          /\ UNCHANGED <<now, pendingDelete, appended, hostVars, uiVars>>

SaveEdit ==
  /\ isPhoneOpen
  /\ \E messageId \in 1..now, newText \in EditTexts : saveEdit(messageId, newText)

InitDelete ==
  /\ InitCommon
  /\ ctxKey \in Keys
  /\ group = SmallGroup

\* a handler appends a message to the store and the main chat, and the
\* next one does so at a later millisecond
AddMessageLater ==
  \E draft \in Drafts(ctxKey, GroupMemberIndices, {<<"hi">>}) :
    LET r == addMessage(store, ctxKey, draft, now)
    IN /\ isPhoneOpen
       /\ appended < MaxAppends
       /\ appended' = appended + 1
       /\ now' = now + 1
       /\ messageStore' = [messageStore EXCEPT ![ctxKey] = r.store]
       /\ chat' = [chat EXCEPT ![ctxKey] =
                     addMessageToMainChat(@, ctxKey, draft.text, draft.sender = "user",
                                          IF draft.sender = "user" THEN Null
                                          ELSE draft.characterName,
                                          r.ret.id, now)]
       /\ UNCHANGED <<pendingDelete, hostVars, uiVars>>

NextDelete ==
  \/ AddMessageLater
  \/ DeleteMessageWithUndo
  \/ UndoDelete
  \/ DeleteTimerFires
  \/ \E i \in 1..Len(tasks) : FinalizeDeleteResumes(i)
  \/ ClosePhoneUI
  \/ HostSwitchesChat

SpecDelete == InitDelete /\ [][NextDelete]_vars

\* regenerating a reply with deletions pending
NextRegen ==
  \/ AddMessageLater
  \/ DeleteMessageWithUndo
  \/ DeleteTimerFires
  \/ \E i \in 1..Len(tasks) : FinalizeDeleteResumes(i)
  \/ RegenerateFromMessage
  \/ \E i \in 1..Len(tasks) : RegenerateDeleteNext(i)
  \/ \E i \in 1..Len(tasks) : RegenerateRespond(i)
  \/ \E i \in 1..Len(tasks) : GenerationThrows(i)
  \/ \E i \in 1..Len(tasks) : GenerationReturns(i)
  \/ \E i \in 1..Len(tasks) : ReplyMirrored(i)

SpecRegen == InitDelete /\ [][NextRegen]_vars

\* the store and the main chat under saveEdit
NextEdit ==
  \/ Tick
  \/ AddMessage
  \/ SaveEdit
  \/ HostDeletesEntry

SpecEdit == InitStore /\ [][NextEdit]_vars

(***************************************************************************)
(* Properties of the store.                                                *)
(***************************************************************************)
\* the sender identity of a message: "user", or the character that wrote it
\* (the one character of an individual conversation is "character")
Identity(key, msg) ==
  IF msg.sender = "user" THEN "user"
  ELSE IF isInGroupChat(key) THEN OrElse(msg.characterId, "character")
  ELSE "character"

FlagsConsistent(key, messages) ==
  \A i \in 1..Len(messages) :
    messages[i].isFirstInSequence =
      (i = 1 \/ Identity(key, messages[i]) # Identity(key, messages[i - 1]))

TailIdentity(key, messages) ==
  IF Len(messages) = 0 THEN Null ELSE Identity(key, messages[Len(messages)])

\* C1: in every conversation the first message is flagged isFirstInSequence
\* and a later message is flagged exactly when its sender identity differs
\* from that of its predecessor.
C1_SequenceFlags ==
  \A k \in Keys : FlagsConsistent(k, messageStore[k].messages)

\* C2: the messages of every conversation are in strictly increasing id
\* order, so no two of them share an id.
C2_StrictlyIncreasingIds ==
  \A k \in Keys :
    \A i \in 1..(Len(messageStore[k].messages) - 1) :
      messageStore[k].messages[i].id < messageStore[k].messages[i + 1].id

\* C3: lastSender is the sender identity of the last message of the list,
\* and null exactly when the list is empty.
C3_LastSenderIsTail ==
  \A k \in Keys :
    messageStore[k].lastSender = TailIdentity(k, messageStore[k].messages)

\* C4: removing any present message and restoring it at once (at its index
\* or without an index) gives back the same list, flags and lastSender.
C4_RestoreRoundTrip ==
  \A i \in 1..Len(getMessages) :
    LET messageId == getMessages[i].id
        index == FindIndexById(getMessages, messageId) - 1
        removed == removeMessage(store, messageId)
    IN \A atIndex \in {index, -1} :
         LET restored == restoreMessage(removed.store, ctxKey, removed.ret[1], atIndex)
         IN /\ restored.messages = getMessages
            /\ restored.lastSender = store.lastSender

\* C5: reconstructFromMainChat called on a conversation that holds a message
\* returns 0 and leaves the record as it is.
C5_ReconstructOnlyWhenEmpty ==
  Len(getMessages) > 0 =>
    LET r == reconstructFromMainChat(store, ctxKey, chat[ctxKey], now)
    IN r.ret = 0 /\ r.store = store

\* a first reconstruction has filled the store and the main chat still holds
\* the phone entries a second one would replay
C5_Witness ==
  /\ Len(getMessages) > 0
  /\ \A i \in 1..Len(getMessages) : getMessages[i].reconstructed
  /\ \E i \in 1..Len(chat[ctxKey]) : chat[ctxKey][i].isPhoneMessage

WithoutFlags(messages) ==
  [i \in 1..Len(messages) |-> [messages[i] EXCEPT !.isFirstInSequence = FALSE]]

\* C6: syncWithMainChat keeps exactly the messages whose id the main chat
\* still carries, in their order, returns the number removed, and leaves
\* lastSender and the flags consistent with the remaining list.
C6_PruneCorrect ==
  LET r == syncWithMainChat(store, chat[ctxKey])
      valid == ValidPhoneMessageIds(chat[ctxKey])
      Keep(msg) == msg.id \in valid
  IN /\ WithoutFlags(r.store.messages) = WithoutFlags(SelectSeq(getMessages, Keep))
     /\ r.ret = Len(getMessages) - Len(r.store.messages)
     /\ FlagsConsistent(ctxKey, r.store.messages)
     /\ r.store.lastSender = TailIdentity(ctxKey, r.store.messages)

(***************************************************************************)
(* Properties of turn selection and of the response handlers.              *)
(***************************************************************************)
\* the group conversation is open with the roster [X, Y, Z], nobody muted,
\* the List strategy and no self responses
ListRosterXYZ ==
  /\ isInGroupChat(ctxKey)
  /\ group.members = <<1, 2, 3>>
  /\ group.disabled_members = {}
  /\ group.activation_strategy = 1
  /\ ~group.allow_self_responses

\* C7: with the roster [X, Y, Z] all active, the List strategy and no self
\* responses, the responder chosen for a user message is always the roster
\* member after the last character speaker, wrapping from Z to X, and it is
\* the one responder getNextGroupCharacter can return.
C7_ListRoundRobin ==
  [][\A i \in 1..Len(tasks) :
       (StartResponses(i) /\ ListRosterXYZ /\ Truthy(LastCharIdOf(getMessages))) =>
         \E j \in 1..3 :
           /\ MemberId(characters[j]) = LastCharIdOf(getMessages)
           /\ getNextGroupCharacter(group, getMessages) = { <<characters[(j % 3) + 1]>> }
           /\ Len(tasks') = Len(tasks)
           /\ tasks'[i].pc = "generating"
           /\ tasks'[i].charId = MemberId(characters[(j % 3) + 1])]_vars

\* Z spoke last and the reply to the next user message is being generated
\* by X
C7_Witness ==
  /\ ListRosterXYZ
  /\ LastCharIdOf(getMessages) = MemberId(characters[3])
  /\ getMessages[Len(getMessages)].sender = "user"
  /\ \E i \in 1..Len(tasks) :
       /\ tasks[i].kind = "send" /\ tasks[i].pc = "generating"
       /\ tasks[i].charId = MemberId(characters[1])

\* C8 as the specification states it: under Natural, List and Pooled a user
\* message that mentions more than one active member schedules every
\* mentioned member.
C8_FanOutEveryStrategy ==
  [][\A i \in 1..Len(tasks) :
       (/\ StartResponses(i)
        /\ isInGroupChat(ctxKey)
        /\ group.activation_strategy \in {0, 1, 2}
        /\ Len(getMentionedCharacters(group, tasks[i].text)) > 1) =>
         /\ Len(tasks') = Len(tasks)
         /\ tasks'[i].pc = "generatingFor"
         /\ tasks'[i].plan = getMentionedCharacters(group, tasks[i].text)]_vars

\* C8: a user message that mentions more than one active member schedules
\* every mentioned member under the Natural strategy only; under List,
\* Pooled and Manual the mentions are ignored and the strategy picks at most
\* one responder.
C8_FanOutUnderNatural ==
  [][\A i \in 1..Len(tasks) :
       (/\ StartResponses(i)
        /\ isInGroupChat(ctxKey)
        /\ Len(getMentionedCharacters(group, tasks[i].text)) > 1) =>
         IF group.activation_strategy = 0
         THEN /\ Len(tasks') = Len(tasks)
              /\ tasks'[i].pc = "generatingFor"
              /\ tasks'[i].plan = getMentionedCharacters(group, tasks[i].text)
              /\ tasks'[i].pos = 1
         ELSE \/ /\ Len(tasks') = Len(tasks) - 1
                 /\ <<>> \in getNextGroupCharacter(group, getMessages)
              \/ /\ Len(tasks') = Len(tasks)
                 /\ tasks'[i].pc = "generating"
                 /\ tasks'[i].plan = <<>>
                 /\ \E c \in getNextGroupCharacter(group, getMessages) :
                      c # <<>> /\ MemberId(c[1]) = tasks'[i].charId]_vars

\* the second of two mentioned members has its turn
C8_Witness ==
  \E i \in 1..Len(tasks) :
    /\ tasks[i].kind = "send"
    /\ tasks[i].pc \in {"generatingFor", "mirrorReplyFor"}
    /\ Len(tasks[i].plan) > 1
    /\ tasks[i].pos = 2

\* C9: under the Manual strategy getNextGroupCharacter returns no responder,
\* whatever the roster, the muted members and the history.
C9_ManualNoResponder ==
  (isInGroupChat(ctxKey) /\ group.activation_strategy = 3) =>
    getNextGroupCharacter(group, getMessages) = { <<>> }

\* C10: when the deletion loop of regenerateFromMessage is over, the
\* conversation holds exactly the k messages before the target, the main
\* chat holds no more phone entries than that, and one reply is being
\* generated, in a group by the character of the target message.
C10_RegenerateFrom ==
  [][\A i \in 1..Len(tasks) :
       RegenerateRespond(i) =>
         /\ Len(getMessages) = tasks[i].k
         /\ Len(chat[ctxKey]) = tasks[i].k
         /\ Len(tasks') = Len(tasks)
         /\ tasks'[i].pc \in {"generating", "generatingFor"}
         /\ isInGroupChat(ctxKey) => tasks'[i].charId = tasks[i].targetId]_vars

(***************************************************************************)
(* Properties of deleting with undo.                                       *)
(***************************************************************************)
\* C11: deleteMessageWithUndo(id) takes the message out of the store and
\* leaves its transcript entry in place, and an undoDelete in the state it
\* leaves gives the store the list (order, content, flags) and the
\* lastSender it had before the deletion, the transcript still untouched.
C11_UndoWindow ==
  [][\A id \in 1..now :
       (isPhoneOpen /\ FindIndexById(getMessages, id) # 0 /\ deleteMessageWithUndo(id)) =>
         /\ FindIndexById(messageStore'[ctxKey].messages, id) = 0
         /\ findMainChatMessageIndex(chat[ctxKey], id)
              = findMainChatMessageIndex(chat'[ctxKey], id)
         /\ pendingDelete' # <<>>
         /\ restoreMessage(messageStore'[ctxKey], ctxKey, pendingDelete'[1].message,
                           pendingDelete'[1].index) = messageStore[ctxKey]]_vars

\* C12: a deleteMessageWithUndo that finds an earlier deletion pending
\* deletes the earlier one's transcript entry at once and makes the new
\* deletion the pending one, and a deletion whose timer is still running is
\* always the one held in pendingDelete, so that it can still be undone.
C12_SinglePending ==
  /\ [][\A id \in 1..now :
          (/\ isPhoneOpen
           /\ FindIndexById(getMessages, id) # 0
           /\ pendingDelete # <<>>
           /\ deleteMessageWithUndo(id)) =>
            /\ findMainChatMessageIndex(chat'[ctxKey], pendingDelete[1].messageId) = 0
            /\ pendingDelete' # <<>>
            /\ pendingDelete'[1].messageId = id]_vars
  /\ [](\A id \in timers : pendingDelete # <<>> /\ pendingDelete[1].messageId = id)

\* C13: when closePhoneUI runs with a deletion pending, the transcript entry
\* of the pending message is deleted in that step and no timer for it is
\* left running.
C13_CloseFlushes ==
  [][(isPhoneOpen /\ ~isPhoneOpen' /\ pendingDelete # <<>>) =>
       /\ findMainChatMessageIndex(chat'[ctxKey], pendingDelete[1].messageId) = 0
       /\ pendingDelete[1].messageId \notin timers']_vars

(***************************************************************************)
(* Properties of the responses.                                            *)
(***************************************************************************)
\* C14: when the generator throws for one of the mentioned characters of a
\* fan-out, nothing is appended and the store and the main chat keep the
\* replies already committed, and the next mentioned character, if there is
\* one, is asked.
C14_FailureIsolation ==
  [][\A i \in 1..Len(tasks) :
       (tasks[i].pc = "generatingFor" /\ GenerationThrows(i)) =>
         /\ messageStore' = messageStore
         /\ chat' = chat
         /\ IF tasks[i].pos < Len(tasks[i].plan)
            THEN /\ Len(tasks') = Len(tasks)
                 /\ tasks'[i].pc = "generatingFor"
                 /\ tasks'[i].pos = tasks[i].pos + 1
                 /\ tasks'[i].charId = MemberId(tasks[i].plan[tasks[i].pos + 1])
            ELSE Len(tasks') = Len(tasks) - 1]_vars

\* the generator threw for the first mentioned character and the second is
\* being asked
C14_Witness ==
  \E i \in 1..Len(tasks) :
    /\ tasks[i].pc = "generatingFor"
    /\ Len(tasks[i].plan) >= 2
    /\ tasks[i].pos = 2
    /\ tasks[i].thrown = 1

\* C15: a run of sendUserMessage in which the generator threw at least once
\* has shown exactly one error toast by the time it ends.
C15_OneNoticePerRun ==
  [][\A i \in 1..Len(tasks) :
       (tasks[i].kind = "send" /\ tasks' = EndTask(tasks, i)) =>
         LET threwNow == tasks[i].pc \in {"generating", "generatingFor"}
                         /\ GenerationThrows(i)
             thrown == IF threwNow THEN tasks[i].thrown + 1 ELSE tasks[i].thrown
             notices == IF threwNow THEN NoticesAfterThrow(i) ELSE tasks[i].notices
         IN thrown >= 1 => notices = 1]_vars

\* C16: a message is held only by the record of the conversation it was
\* appended in: no record holds a message whose transcript entry is in the
\* main chat of another conversation.
C16_ConversationIsolation ==
  \A k \in Keys : \A other \in Keys \ {k} :
    \A i \in 1..Len(messageStore[k].messages) :
      findMainChatMessageIndex(chat[other], messageStore[k].messages[i].id) = 0

\* C17: in a group whose roster is empty or whose members are all disabled,
\* sendUserMessage ends once the user message is mirrored: no responder is
\* drawn and no generation is started, under any strategy.
C17_NoResponderWithoutRoster ==
  [][\A i \in 1..Len(tasks) :
       (/\ isInGroupChat(ctxKey)
        /\ Len(getGroupMembers(group)) = 0 \/ Len(ActiveMembersOf(group)) = 0
        /\ StartResponses(i)) =>
         tasks' = EndTask(tasks, i)]_vars

\* C18: regenerateFromMessage called with the id of a user message, or with
\* an id the store does not hold, changes nothing: the store, the main chat,
\* the pending deletion and its timer stay as they are and no handler is
\* left generating.
C18_RegenerateInvalidTarget ==
  [][\A messageId \in 1..now :
       (/\ \/ FindIndexById(getMessages, messageId) = 0
           \/ getMessages[FindIndexById(getMessages, messageId)].sender = "user"
        /\ regenerateFromMessage(messageId)) =>
         UNCHANGED vars]_vars

\* Regenerate can be picked on a user message while a deletion is pending
C18_Witness ==
  /\ isPhoneOpen
  /\ Len(tasks) < MaxTasks
  /\ pendingDelete # <<>>
  /\ deleteTimeout # 0
  /\ \E i \in 1..Len(getMessages) : getMessages[i].sender = "user"

\* C19: sendUserMessage with a text that is empty once trimmed changes
\* nothing: no message in the store, no entry in the main chat, no handler
\* left to choose a responder or to generate.
C19_EmptyInputNoOp ==
  [][\A text \in UserInputs :
       (Len(Trim(text)) = 0 /\ sendUserMessage(text)) => UNCHANGED vars]_vars

\* the input field can be submitted with nothing but blanks in it while the
\* conversation already holds messages
C19_Witness ==
  /\ isPhoneOpen
  /\ Len(tasks) < MaxTasks
  /\ appended < MaxUiMessages
  /\ Len(getMessages) > 0
  /\ \E text \in UserInputs : Len(text) > 0 /\ Len(Trim(text)) = 0

(***************************************************************************)
(* Properties of editing.                                                  *)
(***************************************************************************)
\* C20: editMessage on an id the conversation holds changes the text, edited
\* and editedAt of that message and nothing else (order, ids, flags and
\* lastSender stay), on any other id it reports nothing found and returns the
\* store as it was; a saveEdit that finds the message gives the main chat
\* entry with that phoneMessageId the new text and leaves the other entries
\* alone, and one that does not find it changes nothing.
C20_EditFrame ==
  /\ [](\A messageId \in 1..now : \A newText \in EditTexts :
          LET index == FindIndexById(getMessages, messageId)
              r == editMessage(store, messageId, newText, now)
          IN IF index = 0
             THEN ~r.found /\ r.store = store
             ELSE /\ r.found
                  /\ r.store = [store EXCEPT !.messages[index] =
                                  [getMessages[index] EXCEPT !.text = newText,
                                                             !.edited = TRUE,
                                                             !.editedAt = now]])
  /\ [][\A messageId \in 1..now : \A newText \in EditTexts :
          (Len(Trim(newText)) > 0 /\ saveEdit(messageId, newText)) =>
            LET index == FindIndexById(getMessages, messageId)
                entry == findMainChatMessageIndex(chat[ctxKey], messageId)
            IN IF index = 0 THEN UNCHANGED vars
               ELSE /\ messageStore'[ctxKey].messages[index].text = Trim(newText)
                    /\ messageStore'[ctxKey].lastSender = store.lastSender
                    /\ Len(chat'[ctxKey]) = Len(chat[ctxKey])
                    /\ \A j \in 1..Len(chat[ctxKey]) :
                         IF j = entry
                         THEN /\ chat'[ctxKey][j].mes = FormatForMainChat(Trim(newText))
                              /\ chat'[ctxKey][j].phoneMessageId = messageId
                         ELSE chat'[ctxKey][j] = chat[ctxKey][j]]_vars

\* an edited message whose main chat entry shows the new text
C20_Witness ==
  \E i \in 1..Len(getMessages) :
    /\ getMessages[i].edited
    /\ getMessages[i].text = <<"yo">>
    /\ \E j \in 1..Len(chat[ctxKey]) :
         /\ chat[ctxKey][j].phoneMessageId = getMessages[i].id
         /\ chat[ctxKey][j].edited
         /\ chat[ctxKey][j].mes = FormatForMainChat(<<"yo">>)

(***************************************************************************)
(* Properties of turn selection.                                           *)
(***************************************************************************)
\* the place of the first word of the text that names the member
FirstMention(m, text) ==
  CHOOSE i \in 1..Len(text) :
    /\ Lower(text[i]) = Lower(m.name)
    /\ \A j \in 1..(i - 1) : Lower(text[j]) # Lower(m.name)

\* C21: when a user message mentions several active members, the fan-out
\* schedules them in the order in which the text names them.
C21_FanOutInMentionOrder ==
  [][\A i \in 1..Len(tasks) :
       (/\ StartResponses(i)
        /\ isInGroupChat(ctxKey)
        /\ group.activation_strategy = 0
        /\ Len(getMentionedCharacters(group, tasks[i].text)) > 1) =>
         /\ Len(tasks') = Len(tasks)
         /\ tasks'[i].pc = "generatingFor"
         /\ \A a \in 1..Len(tasks'[i].plan) : \A b \in (a + 1)..Len(tasks'[i].plan) :
              FirstMention(tasks'[i].plan[a], tasks[i].text)
                < FirstMention(tasks'[i].plan[b], tasks[i].text)]_vars

\* C22: with allow_self_responses off and two or more active members, the
\* responder chosen under Natural, List or Pooled for a user message that
\* mentions at most one member is not the author of the latest character
\* message.
C22_NoSelfResponse ==
  [][\A i \in 1..Len(tasks) :
       (/\ StartResponses(i)
        /\ isInGroupChat(ctxKey)
        /\ group.activation_strategy \in {0, 1, 2}
        /\ ~group.allow_self_responses
        /\ Len(ActiveMembersOf(group)) >= 2
        /\ Len(getMentionedCharacters(group, tasks[i].text)) <= 1
        /\ Truthy(LastCharIdOf(getMessages))
        /\ Len(tasks') = Len(tasks)) =>
         tasks'[i].charId # LastCharIdOf(getMessages)]_vars

\* the eligible members the text names, in roster order
EligibleMentioned(g, messages, text) ==
  LET IsMentioned(m) == NameMentioned(m.name, text)
  IN SelectSeq(EligibleOf(g, messages), IsMentioned)

\* C23: under Natural a user message that names exactly one eligible member
\* gets its reply from that member alone, the names being looked up among
\* the eligible members, and the selector returns the first eligible member
\* in roster order that the last user message names, without a draw.
C23_NaturalMentionPriority ==
  /\ [][\A i \in 1..Len(tasks) :
          (/\ StartResponses(i)
           /\ isInGroupChat(ctxKey)
           /\ group.activation_strategy = 0
           /\ Len(ActiveMembersOf(group)) > 0
           /\ Len(EligibleMentioned(group, getMessages, tasks[i].text)) = 1) =>
            /\ Len(tasks') = Len(tasks)
            /\ tasks'[i].charId =
                 MemberId(EligibleMentioned(group, getMessages, tasks[i].text)[1])
            /\ tasks'[i].pc = "generatingFor" =>
                 tasks'[i].plan = EligibleMentioned(group, getMessages, tasks[i].text)]_vars
  /\ []((/\ isInGroupChat(ctxKey)
         /\ group.activation_strategy = 0
         /\ Len(ActiveMembersOf(group)) > 0
         /\ LastMessageFrom(getMessages, "user") # <<>>
         /\ Len(EligibleMentioned(group, getMessages,
                                  LastMessageFrom(getMessages, "user")[1].text)) > 0) =>
          getNextGroupCharacter(group, getMessages) =
            { <<EligibleMentioned(group, getMessages,
                                  LastMessageFrom(getMessages, "user")[1].text)[1]>> })

\* the member wrote a character message after the last user message
SpokeSinceLastUser(m, messages) ==
  \E j \in 1..Len(messages) :
    /\ messages[j].sender = "character"
    /\ messages[j].characterId = MemberId(m)
    /\ \A k \in j..Len(messages) : messages[k].sender # "user"

\* the eligible members who have not spoken since the last user message
FreshEligible(g, messages) ==
  { m \in SeqToSet(EligibleOf(g, messages)) : ~SpokeSinceLastUser(m, messages) }

\* C24: under Pooled every responder the selector can return is eligible,
\* and it is one who has not spoken since the last user message whenever
\* such an eligible member exists.
C24_PooledPrefersUnspoken ==
  (/\ isInGroupChat(ctxKey)
   /\ group.activation_strategy = 2
   /\ Len(ActiveMembersOf(group)) > 0) =>
    \A c \in getNextGroupCharacter(group, getMessages) :
      /\ c # <<>>
      /\ c[1] \in SeqToSet(EligibleOf(group, getMessages))
      /\ FreshEligible(group, getMessages) # {} =>
           c[1] \in FreshEligible(group, getMessages)

\* a Pooled group in which one eligible member has spoken since the last
\* user message and another has not
C24_Witness ==
  /\ isInGroupChat(ctxKey)
  /\ group.activation_strategy = 2
  /\ FreshEligible(group, getMessages) # {}
  /\ \E m \in SeqToSet(EligibleOf(group, getMessages)) :
       SpokeSinceLastUser(m, getMessages)

\* the member is muted in the group
IsDisabled(m) == MemberId(m) \in group.disabled_members

\* C25: while at least one roster member is not disabled, the selector
\* returns no disabled member under any strategy, no text makes
\* getMentionedCharacters return one, and the responders sendUserMessage
\* schedules, by a draw or by the fan-out, are not disabled.
C25_DisabledExcluded ==
  /\ []((/\ isInGroupChat(ctxKey)
         /\ \E k \in 1..Len(getGroupMembers(group)) :
              ~IsDisabled(getGroupMembers(group)[k])) =>
          /\ \A c \in getNextGroupCharacter(group, getMessages) :
               c # <<>> => ~IsDisabled(c[1])
          /\ \A text \in UserTexts :
               \A k \in 1..Len(getMentionedCharacters(group, text)) :
                 ~IsDisabled(getMentionedCharacters(group, text)[k]))
  /\ [][\A i \in 1..Len(tasks) :
          (/\ StartResponses(i)
           /\ isInGroupChat(ctxKey)
           /\ \E k \in 1..Len(getGroupMembers(group)) :
                ~IsDisabled(getGroupMembers(group)[k])
           /\ Len(tasks') = Len(tasks)) =>
            /\ tasks'[i].charId \notin group.disabled_members
            /\ \A k \in 1..Len(tasks'[i].plan) : ~IsDisabled(tasks'[i].plan[k])]_vars

\* Y is muted, the user has named Y and Z, and Z alone is answering
C25_Witness ==
  /\ isInGroupChat(ctxKey)
  /\ group.disabled_members = {MemberId(characters[2])}
  /\ \E i \in 1..Len(tasks) :
       /\ tasks[i].kind = "send"
       /\ tasks[i].pc = "generatingFor"
       /\ tasks[i].plan = <<characters[3]>>
  /\ getMessages[Len(getMessages)].text = <<"Z", "y">>

\* C26: in a fan-out the generation for the next mentioned member is
\* requested in the very step that ends the turn of the member before, by a
\* throw, an empty reply or the mirroring of the reply; the prompt of that
\* request is built from the conversation as it is then, replies of the run
\* included; and a reply is committed at the end of the store and of the
\* main chat, under the member whose turn it is.
C26_SequentialFanOut ==
  [][\A i \in 1..Len(tasks) :
       /\ (/\ Len(tasks') = Len(tasks)
           /\ tasks[i].kind = "send"
           /\ tasks'[i].pc = "generatingFor"
           /\ tasks'[i].pos > 1
           /\ tasks'[i].pos # tasks[i].pos) =>
            /\ tasks[i].pc \in {"generatingFor", "mirrorReplyFor"}
            /\ tasks'[i].pos = tasks[i].pos + 1
            /\ tasks'[i].plan = tasks[i].plan
            /\ messageStore' = messageStore
            /\ tasks'[i].history = buildPhoneConversationPrompt(ctxKey, getMessages)
       /\ (/\ Len(tasks') = Len(tasks)
           /\ tasks[i].pc = "generatingFor"
           /\ tasks'[i].pc = "mirrorReplyFor") =>
            /\ tasks'[i].pos = tasks[i].pos
            /\ Len(messageStore'[ctxKey].messages) = Len(getMessages) + 1
            /\ SubSeq(messageStore'[ctxKey].messages, 1, Len(getMessages)) = getMessages
            /\ messageStore'[ctxKey].messages[Len(getMessages) + 1].characterId
                 = MemberId(tasks[i].plan[tasks[i].pos])
            /\ Len(chat'[ctxKey]) = Len(chat[ctxKey]) + 1
            /\ chat'[ctxKey][Len(chat[ctxKey]) + 1].phoneMessageId
                 = messageStore'[ctxKey].messages[Len(getMessages) + 1].id]_vars

\* the second mentioned member is being asked with the reply of the first in
\* the prompt
C26_Witness ==
  \E i \in 1..Len(tasks) :
    /\ tasks[i].kind = "send"
    /\ tasks[i].pc = "generatingFor"
    /\ tasks[i].pos = 2
    /\ Len(tasks[i].history) >= 2
    /\ tasks[i].history[Len(tasks[i].history)].sender = tasks[i].plan[1].name
    /\ tasks[i].history[Len(tasks[i].history) - 1].sender = name1

(***************************************************************************)
(* Properties of the deferred deletion.                                    *)
(***************************************************************************)
\* C27: no deletion leaves a message stranded: a phone entry of the current
\* main chat whose message is in no conversation record belongs to the
\* pending deletion, which undoDelete can still restore and finalizeDelete
\* will delete from the main chat.
C27_EventualDeletion ==
  \A i \in 1..Len(chat[ctxKey]) :
    chat[ctxKey][i].isPhoneMessage =>
      \/ \E k \in Keys :
           FindIndexById(messageStore[k].messages, chat[ctxKey][i].phoneMessageId) # 0
      \/ /\ pendingDelete # <<>>
         /\ pendingDelete[1].messageId = chat[ctxKey][i].phoneMessageId

\* C28: an undoDelete and a newer deleteMessageWithUndo leave no timer
\* running for the deletion they preempt, and a timer that fires for a
\* message other than the pending one touches neither the pending deletion
\* nor its timer handle.
C28_TimerCancellation ==
  [][/\ (isPhoneOpen /\ pendingDelete # <<>> /\ undoDelete) =>
          pendingDelete[1].messageId \notin timers'
     /\ \A id \in 1..now :
          (/\ isPhoneOpen
           /\ pendingDelete # <<>>
           /\ FindIndexById(getMessages, id) # 0
           /\ deleteMessageWithUndo(id)) =>
            pendingDelete[1].messageId \notin timers'
     /\ \A id \in timers :
          (/\ timers' = timers \ {id}
           /\ messageStore' = messageStore
           /\ isPhoneOpen' = isPhoneOpen
           /\ ~FinalizeMatches(id)) =>
            /\ pendingDelete' = pendingDelete
            /\ deleteTimeout' = deleteTimeout]_vars

(***************************************************************************)
(* Properties of regenerating.                                             *)
(***************************************************************************)
\* the messages a regeneration has still to delete are the ones the list
\* holds after the k messages before the target, the newest to go first
TailToDelete(messages, task) ==
  /\ Len(messages) = task.k + Len(task.dels)
  /\ \A j \in 1..Len(task.dels) : messages[Len(messages) - j + 1].id = task.dels[j]

C31_AttributionOnlyInGroups ==
  \A k \in Keys :
    \A i \in 1..Len(messageStore[k].messages) :
      messageStore[k].messages[i].characterId # Null =>
        /\ messageStore[k].messages[i].sender = "character"
        /\ isInGroupChat(k)

\* C32: in a conversation built by addMessage and clearMessages alone, every
\* append flags the new message exactly when its sender identity differs
\* from lastSender before the append and then records that identity as
\* lastSender, and the flags and lastSender agree with the list in every
\* state.
C32_AppendOnly ==
  /\ [](\A k \in Keys :
          /\ FlagsConsistent(k, messageStore[k].messages)
          /\ messageStore[k].lastSender = TailIdentity(k, messageStore[k].messages))
  /\ [][Len(messageStore'[ctxKey].messages) = Len(getMessages) + 1 =>
          LET added == messageStore'[ctxKey].messages[Len(getMessages) + 1]
          IN /\ SubSeq(messageStore'[ctxKey].messages, 1, Len(getMessages)) = getMessages
             /\ added.isFirstInSequence = (Identity(ctxKey, added) # store.lastSender)
             /\ messageStore'[ctxKey].lastSender = Identity(ctxKey, added)]_vars

\* the individual conversation holds a user message followed by a character
\* reply, both flagged
C32_Witness ==
  /\ ctxKey = IndividualKey
  /\ Len(getMessages) = 2
  /\ getMessages[1].sender = "user" /\ getMessages[1].isFirstInSequence
  /\ getMessages[2].sender = "character" /\ getMessages[2].isFirstInSequence
  /\ store.lastSender = "character"

(***************************************************************************)
(* Properties of the store and the transcript together.                    *)
(***************************************************************************)
\* C33: whenever no handler is suspended at an await and no deletion is
\* pending or timed, the ids of the current conversation's store are the
\* phoneMessageIds of the phone entries of its transcript, and each id has
\* the same sender on both sides.
C33_AgreementAtQuiescence ==
  (tasks = <<>> /\ pendingDelete = <<>> /\ timers = {}) =>
    /\ { getMessages[i].id : i \in 1..Len(getMessages) }
         = ValidPhoneMessageIds(chat[ctxKey])
    /\ \A i \in 1..Len(getMessages) :
         \A j \in 1..Len(chat[ctxKey]) :
           (chat[ctxKey][j].isPhoneMessage
            /\ chat[ctxKey][j].phoneMessageId = getMessages[i].id) =>
             chat[ctxKey][j].is_user = (getMessages[i].sender = "user")

\* C34: a finalizeDelete that resumes while a newer deletion is the pending
\* one leaves the pending record and the timer handle of the newer deletion
\* as they are, and when the timer of a deletion fires the entry of that
\* deletion in the current transcript is deleted.
C34_FinalizeKeepsNewer ==
  /\ [][\A i \in 1..Len(tasks) :
          (/\ tasks[i].kind = "finalize"
           /\ pendingDelete # <<>>
           /\ pendingDelete[1].messageId # tasks[i].messageId
           /\ FinalizeDeleteResumes(i)) =>
            /\ pendingDelete' = pendingDelete
            /\ deleteTimeout' = deleteTimeout]_vars
  /\ [][(/\ timers' # timers
         /\ pendingDelete' = pendingDelete
         /\ isPhoneOpen' = isPhoneOpen
         /\ messageStore' = messageStore) =>
          \A id \in timers \ timers' :
            findMainChatMessageIndex(chat[ctxKey], id) # 0 =>
              findMainChatMessageIndex(chat'[ctxKey], id) = 0]_vars

\* C35: undoDelete restores into the store only a message whose transcript
\* entry is still there, so an undo after finalizeDelete has started does
\* not leave a message present in the store and absent from the transcript.
C35_UndoKeepsEntry ==
  [][(/\ isPhoneOpen
      /\ pendingDelete # <<>>
      /\ undoDelete
      /\ FindIndexById(messageStore'[ctxKey].messages, pendingDelete[1].messageId) # 0) =>
       \E k \in Keys :
         findMainChatMessageIndex(chat'[k], pendingDelete[1].messageId) # 0]_vars

\* C36: under the List strategy without self responses and with at least
\* two active members, no member writes two character messages of the group
\* conversation that are consecutive once the user messages are left out,
\* also when sends overlap.
C36_RotationUnderOverlap ==
  (/\ group.activation_strategy = 1
   /\ ~group.allow_self_responses
   /\ Len(ActiveMembersOf(group)) >= 2) =>
    LET messages == messageStore[GroupKey].messages
    IN \A i \in 1..Len(messages) :
         \A j \in (i + 1)..Len(messages) :
           (/\ messages[i].sender = "character"
            /\ messages[j].sender = "character"
            /\ \A m \in (i + 1)..(j - 1) : messages[m].sender = "user") =>
             messages[i].characterId # messages[j].characterId

(***************************************************************************)
(* Properties of reconstruction after a reload.                            *)
(***************************************************************************)
\* the phone entries of a main chat, in order
PhoneEntries(chatArr) ==
  LET IsPhone(msg) == msg.isPhoneMessage
  IN SelectSeq(chatArr, IsPhone)

\* every message of the store has the entry addMessageToMainChat made for it
\* in the main chat, in the same order, and the main chat has no other phone
\* entry
Mirrored(messages, chatArr) ==
  /\ Len(messages) = Len(PhoneEntries(chatArr))
  /\ \A i \in 1..Len(messages) :
       /\ PhoneEntries(chatArr)[i].phoneMessageId = messages[i].id
       /\ PhoneEntries(chatArr)[i].is_user = (messages[i].sender = "user")
       /\ PhoneEntries(chatArr)[i].mes = FormatForMainChat(messages[i].text)

\* C37: when every message of the conversation is mirrored in the main chat,
\* reconstructFromMainChat on the emptied store returns the number of
\* messages and rebuilds a list of the same length with the same id, sender
\* and text at each position, with flags that follow the sequence rule and
\* a lastSender that is the identity of the tail.
C37_ReconstructionRoundTrip ==
  Mirrored(getMessages, chat[ctxKey]) =>
    LET r == reconstructFromMainChat(NoStore, ctxKey, chat[ctxKey], now)
        rebuilt == r.store.messages
    IN /\ r.ret = Len(getMessages)
       /\ Len(rebuilt) = Len(getMessages)
       /\ \A i \in 1..Len(rebuilt) :
            /\ rebuilt[i].id = getMessages[i].id
            /\ rebuilt[i].sender = getMessages[i].sender
            /\ rebuilt[i].text = getMessages[i].text
       /\ FlagsConsistent(ctxKey, rebuilt)
       /\ r.store.lastSender = TailIdentity(ctxKey, rebuilt)

\* C38: a group character message rebuilt by reconstructFromMainChat has the
\* characterId it was appended with, and getNextGroupCharacter chooses the
\* same responder on the rebuilt store as on the original one.
C38_ReconstructionKeepsIdentity ==
  (/\ isInGroupChat(ctxKey)
   /\ Mirrored(getMessages, chat[ctxKey])
   /\ \A i \in 1..Len(getMessages) : ~getMessages[i].reconstructed) =>
    LET rebuilt == reconstructFromMainChat(NoStore, ctxKey, chat[ctxKey], now).store.messages
    IN /\ Len(rebuilt) = Len(getMessages)
       /\ \A i \in 1..Len(rebuilt) :
            rebuilt[i].characterId = getMessages[i].characterId
       /\ getNextGroupCharacter(group, rebuilt) = getNextGroupCharacter(group, getMessages)

\* C39: in the individual conversation lastSender is null, 'user' or
\* 'character', and whenever a character message is at the tail, also after
\* removeMessage or restoreMessage, lastSender is the value addMessage
\* records for that message, so that a character message appended next is
\* not flagged isFirstInSequence.
C39_IdentityAgreement ==
  LET s == messageStore[IndividualKey]
      tail == s.messages[Len(s.messages)]
      reply == [sender |-> "character", characterId |-> IndividualKey,
                characterName |-> name2(IndividualKey), text |-> <<"hi">>]
  IN /\ s.lastSender \in {Null, "user", "character"}
     /\ (Len(s.messages) > 0 /\ tail.sender = "character") =>
          /\ s.lastSender = AddSenderKey(FALSE, tail)
          /\ ~addMessage(s, IndividualKey, reply, now).ret.isFirstInSequence

====
